---- MODULE Spec2Model ----
(***************************************************************************)
(* memo-app: the auto-save scheduler (hooks/useAutoSave.ts) as it is wired *)
(* into the page component Home through hooks/useMemos.ts.                 *)
(*                                                                         *)
(* JavaScript is single threaded: every event handler, timer callback and  *)
(* promise continuation runs to completion, and the React re-render and    *)
(* the effects it schedules follow before the next timer or user event.    *)
(* One action below is therefore one handler together with the renders and *)
(* effect runs it causes.  The commit function onSave is an injected       *)
(* promise: its invocation (performSave) and its settlement (settle) are   *)
(* separate steps, and any event may fall between them.  Home's onSave     *)
(* calls updateMemo, which writes localStorage synchronously when invoked. *)
(*                                                                         *)
(* Time is counted in milliseconds and advances in steps of TickMs; a      *)
(* timer fires when its remaining delay is 0, and time does not advance    *)
(* past a due timer.                                                       *)
(***************************************************************************)
EXTENDS Integers, FiniteSets, Sequences, Bags, TLC

\* ---------------------------------------------------------------- constants
DEBOUNCE_DELAY == 3000
maxRetries == 3
BaseRetryDelay == 1000
RetryDelayCap == 10000

\* time advances by the base retry delay, which divides every timer delay
TickMs == BaseRetryDelay

\* ------------------------------------------------------------------- bounds
MaxMemos == 1
MaxPending == 2

Contents == {"", "a"}
Ids == 1..MaxMemos
Absent == "<absent>"

NoMemo == [id |-> 0, content |-> ""]
Memos == [id : Ids, content : Contents]

\* the debounceTimer ref names no pending timeout: it is null, or it holds the
\* id of a timeout that has fired or was cleared (clearTimeout of it does nothing)
NoTimer == [st |-> "none", due |-> 0, memo |-> NoMemo]

VARIABLES
  currentMemo,     \* useMemos: the memo being edited, NoMemo for null
  memosStatus,     \* useMemos: its own saveStatus state
  stored,          \* localStorage: persisted content by memo id
  saveStatus,      \* useAutoSave: exposed SaveStatus
  lastSaved,       \* useAutoSave: "null" or "date"
  debounceTimer,   \* useAutoSave: the debounceTimer ref and the timer it names
  retryCount,      \* useAutoSave: retryCount ref
  lastData,        \* useAutoSave: lastData ref
  isSaving,        \* useAutoSave: isSaving ref
  retryTimers,     \* pending untracked retry timeouts (a bag)
  inFlight,        \* onSave promises invoked and not settled (a bag)
  lastOp,          \* history: the operation of the last step
  lastStart,       \* history: payload of the attempt the last step started
  storage,         \* localStorage: the raw item under STORAGE_KEY
  clock,           \* the host clock in ms (new Date())
  memos,           \* useMemos: the in-memory list of memos
  result,          \* history: outcome of the last MemoStorage / useMemos call
  isLoading,       \* useMemos: the loading flag
  searchQuery,     \* useMemos: the applied search query
  searchDebounceTimer  \* useMemos: the timer state and the timeout it names

vars == <<currentMemo, memosStatus, stored, saveStatus,
          lastSaved, debounceTimer, retryCount, lastData, isSaving,
          retryTimers, inFlight, lastOp, lastStart,
          storage, clock, memos, result,
          isLoading, searchQuery, searchDebounceTimer>>

\* the variables of the scheduler and of Home
hookVars == <<currentMemo, memosStatus, stored, saveStatus,
              lastSaved, debounceTimer, retryCount, lastData, isSaving,
              retryTimers, inFlight, lastOp, lastStart>>

\* the variables of the storage layer and of the memo list kept by useMemos
storeVars == <<storage, clock, memos, result>>

\* the loading flag and the search state of useMemos
searchVars == <<isLoading, searchQuery, searchDebounceTimer>>

\* the searchDebounceTimer state is null
NoSearchTimer == [st |-> "none", query |-> ""]

\* -------------------------------------------------------------- pure helpers
Min(a, b) == IF a < b THEN a ELSE b

RECURSIVE Pow2(_)
Pow2(n) == IF n <= 0 THEN 1 ELSE 2 * Pow2(n - 1)

\* Math.min(1000 * Math.pow(2, retryCount.current - 1), 10000)
retryDelay(rc) == Min(BaseRetryDelay * Pow2(rc - 1), RetryDelayCap)

\* data: currentMemo?.content || ''
dataOf(m) == IF m.id = 0 THEN "" ELSE m.content
\* enabled: !!currentMemo
enabledOf(m) == m.id # 0

\* (variant: the isSaving guard is missing from the early return)
blockedIgnoresSaving(saving, m) == ~enabledOf(m)

\* performSave's early return: if (isSaving.current || !enabled) return
blocked(saving, m) == saving \/ ~enabledOf(m)

\* (variant: the retry budget is one short)
mayRetryOneShort(rc) == rc + 1 < maxRetries

\* the catch branch retries while retryCount.current < maxRetries
mayRetry(rc) == rc < maxRetries

\* (variant: typing is set whatever the status)
typingStatusAlways(st) == "typing"

\* if (saveStatus !== 'saving') setSaveStatus('typing')
typingStatus(st) == IF st # "saving" THEN "typing" ELSE st

\* ----------------------------------------------- the data-change effect
\* s is the hook's view at a render:
\*   [memo, saveStatus, debounceTimer, lastData]

\* cleanup of the previous run: clearTimeout(debounceTimer.current).  Only
\* the run that set the timeout returns the cleanup, and every later run is
\* preceded by it, so a pending timeout always has its cleanup registered;
\* with no timeout pending the cleanup, if any, clears nothing.
effectCleanup(s) == [s EXCEPT !.debounceTimer = NoTimer]

\* body of the effect
effectBody(s) ==
  IF ~enabledOf(s.memo) \/ dataOf(s.memo) = s.lastData
  THEN [s EXCEPT !.lastData = dataOf(s.memo)]
  ELSE [s EXCEPT !.lastData = dataOf(s.memo),
                 !.saveStatus = typingStatus(@),
                 !.debounceTimer = [st |-> "pending", due |-> DEBOUNCE_DELAY,
                                    memo |-> s.memo]]

\* one render of Home: onSave is a fresh closure, so performSave is a fresh
\* callback and the effect's dependencies differ on every render
renderOnce(s) == effectBody(effectCleanup(s))

\* the effect's setSaveStatus('typing') causes one more render
render(s) ==
  LET s1 == renderOnce(s)
  IN  IF s1.saveStatus # s.saveStatus THEN renderOnce(s1) ELSE s1

view(memo, status, timer) ==
  [memo |-> memo, saveStatus |-> status, debounceTimer |-> timer,
   lastData |-> lastData]

\* React renders only when some state changed
afterUpdate(s, changed) == IF changed THEN render(s) ELSE s

install(s) ==
  /\ currentMemo' = s.memo
  /\ saveStatus' = s.saveStatus
  /\ debounceTimer' = s.debounceTimer
  /\ lastData' = s.lastData

\* ------------------------------------------------------- the storage layer
STORAGE_QUOTA_LIMIT == 5 * 1024 * 1024

MaxStoreMemos == 2
MaxClock == 1
MaxSeedLen == 2

\* ids of UUID v4 shape, and one string that is not
StoreIds == 1..MaxStoreMemos
NonUuid == -1

\* /^[0-9a-f]{8}-[0-9a-f]{4}-4[0-9a-f]{3}-[89ab][0-9a-f]{3}-[0-9a-f]{12}$/i
isValidId(id) == id \in StoreIds

\* a Date is its time value in ms; NaT is the Invalid Date (time value NaN),
\* and as a stored string it is any text that new Date() cannot parse
NaT == -1
Times == 0..MaxClock

\* -------------------------------------------------------------------- text
\* a text is known by its characters; notes and queries of the search
NoteA == "Note A"
NoteB == "Note B"
chars(s) ==
  CASE s = "" -> << >>
    [] s = " " -> <<" ">>
    [] s = "A" -> <<"A">>
    [] s = "a" -> <<"a">>
    [] s = "b" -> <<"b">>
    [] s = NoteA -> <<"N", "o", "t", "e", " ", "A">>
    [] s = NoteB -> <<"N", "o", "t", "e", " ", "B">>

\* String.prototype.toLowerCase
lowerChar(ch) ==
  CASE ch = "A" -> "a"
    [] ch = "B" -> "b"
    [] ch = "N" -> "n"
    [] OTHER -> ch

toLowerCase(t) == [i \in 1..Len(t) |-> lowerChar(t[i])]

\* String.prototype.includes: q occurs in t as a run of adjacent characters
includes(t, q) ==
  \E k \in 0..(Len(t) - Len(q)) : \A i \in 1..Len(q) : t[k + i] = q[i]

\* String.prototype.trim
RECURSIVE trimStart(_)
trimStart(t) == IF t # << >> /\ Head(t) = " " THEN trimStart(Tail(t)) ELSE t

RECURSIVE trimEnd(_)
trimEnd(t) ==
  IF t # << >> /\ t[Len(t)] = " " THEN trimEnd(SubSeq(t, 1, Len(t) - 1)) ELSE t

trim(t) == trimEnd(trimStart(t))

\* (variant: the comparison distinguishes upper and lower case)
searchInTextCaseSensitive(text, query) ==
  IF query = << >> \/ trim(query) = << >> THEN TRUE
  ELSE IF text = << >> THEN FALSE
  ELSE includes(text, query)

\* (variant: the query is trimmed before the comparison)
searchInTextTrimmed(text, query) ==
  IF query = << >> \/ trim(query) = << >> THEN TRUE
  ELSE IF text = << >> THEN FALSE
  ELSE includes(toLowerCase(text), toLowerCase(trim(query)))

\* searchInText(text, query, false)
searchInText(text, query) ==
  IF query = << >> \/ trim(query) = << >> THEN TRUE
  ELSE IF text = << >> THEN FALSE
  ELSE includes(toLowerCase(text), toLowerCase(query))

\* the useMemo of filteredMemos, for the list ms and the applied query q
filterMemos(ms, q) ==
  IF trim(chars(q)) = << >> THEN ms
  ELSE SelectSeq(ms, LAMBDA m : searchInText(chars(m.content), chars(q)))

\* contents by their UTF-8 length: Half fills half of the quota, Full all;
\* a note takes one byte for each of its characters
Half == "<half>"
Full == "<full>"
StoreContents == {"", Half, Full}
contentBytes(c) ==
  CASE c = "" -> 0
    [] c = Half -> STORAGE_QUOTA_LIMIT \div 2
    [] c = Full -> STORAGE_QUOTA_LIMIT
    [] OTHER -> Len(chars(c))

\* the raw item: null (or ''), text that is not JSON, JSON that is not an
\* array, or an array.  An element of the array is form "memo": an object
\* with the four fields, all strings; "badField": an object with a required
\* field missing or not a string; "notObject": null or a scalar.
NoItem == [kind |-> "missing", items |-> << >>]
Malformed == [kind |-> "malformed", items |-> << >>]
NonArray == [kind |-> "nonArray", items |-> << >>]
arrayOf(items) == [kind |-> "array", items |-> items]

item(form, id, c, ca, ua) ==
  [form |-> form, id |-> id, content |-> c, createdAt |-> ca, updatedAt |-> ua]

\* op and id: the call and its id argument; kind: "ok" or the StorageError
\* type; value: what it returned; tried, data: whether saveMemos was reached
\* and with which list
NoResult == [op |-> "none", id |-> 0, kind |-> "ok", value |-> << >>,
             tried |-> FALSE, data |-> << >>]

isValidMemoData(it) == it.form = "memo" /\ isValidId(it.id)

\* { id, content, createdAt: new Date(..), updatedAt: new Date(..) }
toMemo(it) ==
  [id |-> it.id, content |-> it.content,
   createdAt |-> it.createdAt, updatedAt |-> it.updatedAt]

\* memos.sort((a, b) => b.updatedAt.getTime() - a.updatedAt.getTime()):
\* Array.prototype.sort is stable and the result is descending by updatedAt
insertByUpdatedAt(sorted, m) ==
  LET k == Cardinality({i \in 1..Len(sorted) : sorted[i].updatedAt >= m.updatedAt})
  IN  SubSeq(sorted, 1, k) \o <<m>> \o SubSeq(sorted, k + 1, Len(sorted))

\* (variant: the list is returned in stored order)
storedOrder(ms) == ms

RECURSIVE sortByUpdatedAt(_)
sortByUpdatedAt(ms) ==
  IF ms = << >> THEN << >>
  ELSE insertByUpdatedAt(sortByUpdatedAt(SubSeq(ms, 1, Len(ms) - 1)), ms[Len(ms)])

\* with an Invalid Date the comparator returns NaN and is not a consistent
\* order: the resulting order is implementation-defined
sortOutcomes(ms) ==
  IF \E i \in 1..Len(ms) : ms[i].updatedAt = NaT
  THEN {[i \in 1..Len(ms) |-> ms[p[i]]] : p \in Permutations(1..Len(ms))}
  ELSE {sortByUpdatedAt(ms)}

\* (variant: every read failure is reported as PARSE_ERROR)
errorKindAlwaysParse(cause) == "PARSE_ERROR"

\* the catch block of getMemos: PARSE_ERROR for a SyntaxError (thrown by
\* JSON.parse), UNKNOWN for any other error (the Errors thrown by the checks)
errorKind(cause) == IF cause = "SyntaxError" THEN "PARSE_ERROR" ELSE "UNKNOWN"

failure(cause) == [kind |-> errorKind(cause), memos |-> << >>]

\* (variant: elements that fail the validation are dropped from the result)
getMemosSkippingInvalid(raw) ==
  CASE raw.kind = "missing" -> {[kind |-> "ok", memos |-> << >>]}
    [] raw.kind = "malformed" -> {failure("SyntaxError")}
    [] raw.kind = "nonArray" -> {failure("Error")}
    [] raw.kind = "array" ->
         {[kind |-> "ok", memos |-> ms] :
            ms \in sortOutcomes([i \in 1..Len(SelectSeq(raw.items, isValidMemoData)) |->
                                   toMemo(SelectSeq(raw.items, isValidMemoData)[i])])}

\* (variant: a key that was never written is reported as a failure)
getMemosMissingFails(raw) ==
  CASE raw.kind = "missing" -> {failure("Error")}
    [] raw.kind = "malformed" -> {failure("SyntaxError")}
    [] raw.kind = "nonArray" -> {failure("Error")}
    [] raw.kind = "array" ->
         IF \E i \in 1..Len(raw.items) : ~isValidMemoData(raw.items[i])
         THEN {failure("Error")}
         ELSE {[kind |-> "ok", memos |-> ms] :
                 ms \in sortOutcomes([i \in 1..Len(raw.items) |-> toMemo(raw.items[i])])}

\* getMemos: the possible outcomes of reading the raw item
getMemos(raw) ==
  CASE raw.kind = "missing" -> {[kind |-> "ok", memos |-> << >>]}
    [] raw.kind = "malformed" -> {failure("SyntaxError")}
    [] raw.kind = "nonArray" -> {failure("Error")}
    [] raw.kind = "array" ->
         IF \E i \in 1..Len(raw.items) : ~isValidMemoData(raw.items[i])
         THEN {failure("Error")}
         ELSE {[kind |-> "ok", memos |-> ms] :
                 ms \in sortOutcomes([i \in 1..Len(raw.items) |-> toMemo(raw.items[i])])}

\* JSON.stringify: Date.prototype.toJSON gives the ISO string, and null for
\* an Invalid Date, so such a record is written with a field that is no string
toItem(m) ==
  item(IF m.createdAt = NaT \/ m.updatedAt = NaT THEN "badField" ELSE "memo",
       m.id, m.content, m.createdAt, m.updatedAt)

\* new Blob([data]).size of the serialized array
dateBytes(t) == IF t = NaT THEN 4 ELSE 26
itemBytes(m) == 84 + contentBytes(m.content) + dateBytes(m.createdAt) + dateBytes(m.updatedAt)

RECURSIVE sumBytes(_)
sumBytes(ms) == IF ms = << >> THEN 0 ELSE itemBytes(Head(ms)) + sumBytes(Tail(ms))

dataSize(ms) == 2 + sumBytes(ms) + (IF Len(ms) > 1 THEN Len(ms) - 1 ELSE 0)

\* (variant: the size check is missing)
overQuotaUnchecked(ms) == FALSE

\* if (dataSize > STORAGE_QUOTA_LIMIT)
overQuota(ms) == dataSize(ms) > STORAGE_QUOTA_LIMIT

\* what the host's setItem may do: store the value, or throw QuotaExceededError
HostOutcomes == {"stored", "QuotaExceededError"}

\* saveMemos(ms) on the raw item raw
saveMemos(raw, ms, host) ==
  IF overQuota(ms) \/ host = "QuotaExceededError"
  THEN [kind |-> "QUOTA_EXCEEDED", storage |-> raw, tried |-> TRUE, data |-> ms]
  ELSE [kind |-> "ok", storage |-> arrayOf([i \in 1..Len(ms) |-> toItem(ms[i])]),
        tried |-> TRUE, data |-> ms]

noWrite(raw, kind) == [kind |-> kind, storage |-> raw, tried |-> FALSE, data |-> << >>]

\* (variant: the first memo is taken whatever its id)
indexOfHead(ms, id) == IF ms = << >> THEN 0 ELSE 1

indexOf(ms, id) ==
  IF \E i \in 1..Len(ms) : ms[i].id = id
  THEN CHOOSE i \in 1..Len(ms) : ms[i].id = id /\ \A j \in 1..(i - 1) : ms[j].id # id
  ELSE 0

\* (variant: the memo is written alone, without the memos read before)
saveMemoAlone(raw, memo, host) ==
  {IF r.kind # "ok" THEN noWrite(raw, r.kind) ELSE saveMemos(raw, <<memo>>, host) :
     r \in getMemos(raw)}

\* (variant: when the read fails the memo is written as the only record)
saveMemoOverUnreadable(raw, memo, host) ==
  {IF r.kind # "ok" THEN saveMemos(raw, <<memo>>, host)
   ELSE LET i == indexOf(r.memos, memo.id)
        IN  saveMemos(raw, IF i > 0 THEN [r.memos EXCEPT ![i] = memo]
                                ELSE Append(r.memos, memo), host) :
     r \in getMemos(raw)}

\* saveMemo(memo): the possible outcomes
saveMemo(raw, memo, host) ==
  {IF r.kind # "ok" THEN noWrite(raw, r.kind)
   ELSE LET i == indexOf(r.memos, memo.id)
        IN  saveMemos(raw, IF i > 0 THEN [r.memos EXCEPT ![i] = memo]
                                ELSE Append(r.memos, memo), host) :
     r \in getMemos(raw)}

\* getMemoById(id): the possible results, << >> for undefined
getMemoById(raw, id) ==
  IF ~isValidId(id) THEN {<< >>}
  ELSE {IF r.kind = "ok" /\ indexOf(r.memos, id) > 0
        THEN <<r.memos[indexOf(r.memos, id)]>> ELSE << >> : r \in getMemos(raw)}

\* the page after its startup load of a key that was never written
Init ==
  /\ currentMemo = NoMemo
  /\ memosStatus = "idle"
  /\ stored = [i \in Ids |-> Absent]
  /\ saveStatus = "idle"
  /\ lastSaved = "null"
  /\ debounceTimer = NoTimer
  /\ retryCount = 0
  /\ lastData = ""
  /\ isSaving = FALSE
  /\ retryTimers = EmptyBag
  /\ inFlight = EmptyBag
  /\ lastOp = "init"
  /\ lastStart = NoMemo
  /\ storage = NoItem
  /\ clock = 0
  /\ memos = << >>
  /\ result = NoResult
  /\ isLoading = FALSE
  /\ searchQuery = ""
  /\ searchDebounceTimer = NoSearchTimer


\* ------------------------------------------------------------- bag helpers
\* every pending retry timeout with its remaining delay reduced by TickMs
elapse(B) ==
  [t \in {[x EXCEPT !.due = @ - TickMs] : x \in BagToSet(B)} |->
     B[[t EXCEPT !.due = @ + TickMs]]]

\* the host storage accepts or rejects a write (quota, DOMException); a
\* memo that is not stored is NOT_FOUND.  A rejected write may leave one
\* more retry timeout behind: the model caps the attempts in flight plus the
\* retry timeouts pending.
outcomes(m, rts) ==
  IF stored[m.id] = Absent THEN {FALSE}
  ELSE IF BagCardinality(rts) + BagCardinality(inFlight) < MaxPending THEN {TRUE, FALSE}
  ELSE {TRUE}

\* ------------------------------------------------------------- performSave
\* performSave of the render whose currentMemo was m, entered with the
\* debounce ref tmr and the pending retry timeouts rts; ok is the outcome of
\* memoStorage.updateMemo inside onSave -> updateMemo(m.id, m.content).
performSave(m, tmr, rts, ok) ==
  IF blocked(isSaving, m)
  THEN /\ debounceTimer' = tmr
       /\ retryTimers' = rts
       /\ lastStart' = NoMemo
       /\ UNCHANGED <<currentMemo, memosStatus, stored,
                      saveStatus, lastSaved, retryCount, lastData, isSaving,
                      inFlight>>
  ELSE LET memoAfter == IF ok /\ currentMemo.id # 0
                        THEN [currentMemo EXCEPT !.content = m.content]
                        ELSE currentMemo
           mstat == IF ok THEN "saved" ELSE "error"
           changed == saveStatus # "saving" \/ ok \/ memosStatus # mstat
       IN  /\ install(afterUpdate(view(memoAfter, "saving", tmr), changed))
           /\ isSaving' = TRUE
           /\ inFlight' = inFlight (+) SetToBag({[memo |-> m, ok |-> ok]})
           /\ stored' = IF ok THEN [stored EXCEPT ![m.id] = m.content] ELSE stored
           /\ memosStatus' = mstat
           /\ retryTimers' = rts
           /\ lastStart' = m
           /\ UNCHANGED <<lastSaved, retryCount>>

\* the promise of an attempt settles: the rest of performSave after the await
settle(r) ==
  /\ BagIn(r, inFlight)
  /\ inFlight' = inFlight (-) SetToBag({r})
  /\ isSaving' = FALSE
  /\ lastOp' = "settle"
  /\ UNCHANGED <<storeVars, searchVars>>
  /\ lastStart' = NoMemo
  /\ IF r.ok
     THEN /\ lastSaved' = "date"
          /\ retryCount' = 0
          /\ retryTimers' = retryTimers
          /\ install(render(view(currentMemo, "saved", debounceTimer)))
     ELSE IF mayRetry(retryCount)
     THEN /\ retryCount' = retryCount + 1
          /\ retryTimers' = retryTimers (+)
               SetToBag({[due |-> retryDelay(retryCount + 1), memo |-> r.memo]})
          /\ lastSaved' = lastSaved
          /\ install(afterUpdate(view(currentMemo, "saving", debounceTimer),
                                 saveStatus # "saving"))
     ELSE /\ retryCount' = 0
          /\ retryTimers' = retryTimers
          /\ lastSaved' = lastSaved
          /\ install(afterUpdate(view(currentMemo, "error", debounceTimer),
                                 saveStatus # "error"))
  /\ UNCHANGED <<memosStatus, stored>>

Settle == \E r \in BagToSet(inFlight) : settle(r)

\* ------------------------------------------------------------ hook's API
\* save(): clear the debounce timer, then performSave of the latest render
save ==
  /\ lastOp' = "save"
  /\ UNCHANGED <<storeVars, searchVars>>
  /\ \E ok \in (IF enabledOf(currentMemo) THEN outcomes(currentMemo, retryTimers)
                ELSE {TRUE}) :
        performSave(currentMemo, NoTimer, retryTimers, ok)

reset ==
  /\ BagCardinality(inFlight) + BagCardinality(retryTimers) < MaxPending
  /\ lastOp' = "reset"
  /\ UNCHANGED <<storeVars, searchVars>>
  /\ lastStart' = NoMemo
  /\ lastSaved' = "null"
  /\ retryCount' = 0
  /\ isSaving' = FALSE
  /\ install(afterUpdate(view(currentMemo, "idle", NoTimer),
                         saveStatus # "idle" \/ lastSaved # "null"))
  /\ UNCHANGED <<memosStatus, stored, retryTimers, inFlight>>

\* ------------------------------------------------------------------ timers
DebounceFire ==
  /\ debounceTimer.st = "pending"
  /\ debounceTimer.due = 0
  /\ lastOp' = "debounceFire"
  /\ UNCHANGED <<storeVars, searchVars>>
  /\ \E ok \in outcomes(debounceTimer.memo, retryTimers) :
        performSave(debounceTimer.memo, NoTimer, retryTimers, ok)

RetryFire ==
  \E t \in BagToSet(retryTimers) :
    /\ t.due = 0
    /\ lastOp' = "retryFire"
    /\ UNCHANGED <<storeVars, searchVars>>
    /\ LET rts == retryTimers (-) SetToBag({t})
       IN  \E ok \in outcomes(t.memo, rts) : performSave(t.memo, debounceTimer, rts, ok)

Tick ==
  /\ debounceTimer.st = "pending" \/ retryTimers # EmptyBag
  /\ debounceTimer.st = "pending" => debounceTimer.due > 0
  /\ \A t \in BagToSet(retryTimers) : t.due > 0
  \* a search timeout (300 ms) is due before TickMs have passed
  /\ searchDebounceTimer.st # "pending"
  /\ debounceTimer' = IF debounceTimer.st = "pending"
                      THEN [debounceTimer EXCEPT !.due = @ - TickMs]
                      ELSE debounceTimer
  /\ retryTimers' = elapse(retryTimers)
  /\ lastOp' = "tick"
  /\ UNCHANGED <<storeVars, searchVars>>
  /\ lastStart' = NoMemo
  /\ UNCHANGED <<currentMemo, memosStatus, stored, saveStatus,
                 lastSaved, retryCount, lastData, isSaving, inFlight>>

\* ------------------------------------------------------------ host events
\* beforeunload, and visibilitychange to hidden
HostSignal ==
  /\ saveStatus = "typing"
  /\ enabledOf(currentMemo)
  /\ lastOp' = "hostSignal"
  /\ UNCHANGED <<storeVars, searchVars>>
  /\ \E ok \in outcomes(currentMemo, retryTimers) :
        performSave(currentMemo, debounceTimer, retryTimers, ok)

\* ------------------------------------------------------------------- Home
handleContentChange ==
  /\ currentMemo.id # 0
  /\ \E c \in Contents \ {currentMemo.content} :
        install(render(view([currentMemo EXCEPT !.content = c], saveStatus,
                            debounceTimer)))
  /\ lastOp' = "observe"
  /\ UNCHANGED <<storeVars, searchVars>>
  /\ lastStart' = NoMemo
  /\ UNCHANGED <<memosStatus, stored, lastSaved, retryCount,
                 isSaving, retryTimers, inFlight>>

\* handleNewNote -> createMemo(''): memoStorage.createMemo writes at once
handleNewNote ==
  /\ \E i \in Ids : stored[i] = Absent
  /\ LET id == CHOOSE i \in Ids : stored[i] = Absent /\ \A j \in Ids : j < i => stored[j] # Absent
     IN  \E ok \in BOOLEAN :
           IF ok
           THEN /\ stored' = [stored EXCEPT ![id] = ""]
                /\ memosStatus' = "saved"
                /\ install(render(view([id |-> id, content |-> ""], saveStatus,
                                       debounceTimer)))
           ELSE /\ stored' = stored
                /\ memosStatus' = "error"
                /\ install(afterUpdate(view(currentMemo, saveStatus, debounceTimer),
                                       memosStatus # "error"))
  /\ lastOp' = "create"
  /\ UNCHANGED <<storeVars, searchVars>>
  /\ lastStart' = NoMemo
  /\ UNCHANGED <<lastSaved, retryCount, isSaving, retryTimers,
                 inFlight>>

\* Home renders again for a reason of its own: handleDelete opens the
\* delete dialog (setShowDeleteModal), its onClose closes it
homeRerender ==
  /\ enabledOf(currentMemo)
  /\ install(render(view(currentMemo, saveStatus, debounceTimer)))
  /\ lastOp' = "rerender"
  /\ UNCHANGED <<storeVars, searchVars>>
  /\ lastStart' = NoMemo
  /\ UNCHANGED <<memosStatus, stored, lastSaved, retryCount, isSaving,
                 retryTimers, inFlight>>

Next ==
  \/ handleNewNote
  \/ handleContentChange
  \/ homeRerender
  \/ save
  \/ reset
  \/ HostSignal
  \/ DebounceFire
  \/ RetryFire
  \/ Settle
  \/ Tick

Spec == Init /\ [][Next]_vars

\* the same program when the host never calls reset()
NextNoReset ==
  \/ handleNewNote
  \/ handleContentChange
  \/ homeRerender
  \/ save
  \/ HostSignal
  \/ DebounceFire
  \/ RetryFire
  \/ Settle
  \/ Tick

SpecNoReset == Init /\ [][NextNoReset]_vars

\* the same program when every write is accepted and reset() is not called:
\* no attempt fails, so no retry timeout is ever set
Accepted == \A r \in BagToSet(inFlight) : r.ok

NextEdit ==
  \/ handleNewNote /\ Accepted'
  \/ handleContentChange /\ Accepted'
  \/ homeRerender /\ Accepted'
  \/ save /\ Accepted'
  \/ HostSignal /\ Accepted'
  \/ DebounceFire /\ Accepted'
  \/ Settle /\ Accepted'
  \/ Tick /\ Accepted'

SpecEdit == Init /\ [][NextEdit]_vars

\* ------------------------------------------------------------------ claims
started == lastStart.id # 0
Quiescent ==
  /\ debounceTimer.st # "pending"
  /\ inFlight = EmptyBag
  /\ retryTimers = EmptyBag

\* C1: at most one invocation of onSave is in flight in every reachable state.
C1_AtMostOneInFlight == BagCardinality(inFlight) <= 1

\* C2: after an observe that finds no commit in flight and no retry pending,
\* a debounce timeout carrying the observed value is armed, so that with no
\* further event exactly one attempt starts, with that value.  (Without the
\* timeout nothing is pending and no attempt can start at all.)
C2_DebounceArmed ==
  (lastOp = "observe" /\ inFlight = EmptyBag /\ retryTimers = EmptyBag)
    => (debounceTimer.st = "pending" /\ debounceTimer.memo = currentMemo)

\* C3: every attempt that starts carries the value observed last before it
\* started, and the store never receives another value from it.
C3_FreshPayload ==
  [][started' => /\ lastStart'.content = dataOf(currentMemo)
                 /\ stored'[lastStart'.id] \in {stored[lastStart'.id], dataOf(currentMemo)}]_vars

\* C4: no attempt for a memo starts while an earlier commit for it is
\* unsettled: in flight, or waiting in a backoff retry other than the one
\* whose timeout starts this attempt.
C4_Sequential ==
  [][started' => /\ \A r \in BagToSet(inFlight) : r.memo.id # lastStart'.id
                 /\ \A t \in BagToSet(retryTimers') : t.memo.id # lastStart'.id]_vars

\* C5 (checked under SpecEdit, where every commit succeeds): when nothing is
\* pending any more (no debounce timeout, no attempt in flight) the persisted
\* content of the edited memo is the content observed last.
C5_NoEditLost ==
  (Quiescent /\ enabledOf(currentMemo)) => stored[currentMemo.id] = currentMemo.content

\* the step settles an attempt that failed
failedSettle ==
  /\ lastOp' = "settle"
  /\ \E r \in BagToSet(inFlight) : ~r.ok /\ inFlight' = inFlight (-) SetToBag({r})

C7_BackoffKeepsSaving ==
  [][/\ (failedSettle /\ retryCount' > 0) =>
          \E t \in BagToSet(retryTimers') :
             /\ t.due = Min(BaseRetryDelay * Pow2(retryCount' - 1), RetryDelayCap)
             /\ CopiesIn(t, retryTimers') = CopiesIn(t, retryTimers) + 1
     /\ retryTimers' # EmptyBag => saveStatus' = "saving"]_vars

\* C8 as claimed: flush with a memo selected leaves no debounce timeout
\* pending and starts an attempt carrying the latest value, in any state.
C8_FlushAlwaysStarts ==
  [][(lastOp' = "save" /\ enabledOf(currentMemo)) =>
        (debounceTimer'.st # "pending" /\ lastStart' = currentMemo)]_vars

\* C8 as amended: flush leaves no debounce timeout pending; it starts an
\* attempt carrying the latest value when no attempt is marked in progress
\* (isSaving) and a memo is selected, and starts none otherwise.
C8_FlushStartsUnlessSaving ==
  [][lastOp' = "save" =>
        /\ debounceTimer'.st # "pending"
        /\ IF isSaving \/ ~enabledOf(currentMemo)
           THEN ~started' /\ inFlight' = inFlight
           ELSE /\ lastStart' = currentMemo
                /\ BagCardinality(inFlight') = BagCardinality(inFlight) + 1]_vars

C8_Witness ==
  lastOp = "save" /\ ~started /\ isSaving /\ inFlight # EmptyBag /\ enabledOf(currentMemo)

\* C9: right after reset no debounce or retry timeout is pending, the retry
\* counter is 0, lastSaved is null and the status is idle; the status then
\* leaves idle only through an observe or a flush.
C9_ResetClears ==
  [][/\ lastOp' = "reset" =>
          /\ debounceTimer'.st # "pending"
          /\ retryTimers' = EmptyBag
          /\ retryCount' = 0
          /\ lastSaved' = "null"
          /\ saveStatus' = "idle"
     /\ (saveStatus = "idle" /\ saveStatus' # "idle") => lastOp' \in {"observe", "save"}]_vars

ClaimedEdges ==
  {<<"idle", "typing">>, <<"typing", "saving">>, <<"saving", "saved">>,
   <<"saving", "error">>, <<"saved", "typing">>, <<"error", "typing">>}

FlushEdges ==
  {<<"idle", "saving">>, <<"saved", "saving">>, <<"error", "saving">>}

\* an attempt that reset() left in flight settles after the status moved on
LateSettleEdges ==
  {<<"idle", "saved">>, <<"typing", "saved">>, <<"error", "saved">>}

outcome(op, id, o, value) ==
  [op |-> op, id |-> id, kind |-> o.kind,
   value |-> IF o.kind = "ok" THEN value ELSE << >>,
   tried |-> o.tried, data |-> o.data]

MemoStorage_getMemos ==
  /\ \E r \in getMemos(storage) :
        result' = outcome("getMemos", 0, noWrite(storage, r.kind), r.memos)
  /\ UNCHANGED <<storage, clock, memos>>
  /\ UNCHANGED <<hookVars, searchVars>>

MemoStorage_getMemoById ==
  /\ \E id \in StoreIds \cup {NonUuid} : \E v \in getMemoById(storage, id) :
        result' = outcome("getMemoById", id, noWrite(storage, "ok"), v)
  /\ UNCHANGED <<storage, clock, memos>>
  /\ UNCHANGED <<hookVars, searchVars>>

\* the ids a uuid v4 may still be: generateId() is taken to return an id that
\* no stored record has
freshIds(raw) == StoreIds \ {raw.items[i].id : i \in 1..Len(raw.items)}

storageCreate(raw, id, content, now, host) ==
  LET memo == [id |-> id, content |-> content, createdAt |-> now, updatedAt |-> now]
  IN  {[o |-> o, memo |-> memo] : o \in saveMemo(raw, memo, host)}

MemoStorage_createMemo ==
  /\ \E id \in freshIds(storage), c \in StoreContents, host \in HostOutcomes :
       \E x \in storageCreate(storage, id, c, clock, host) :
          /\ storage' = x.o.storage
          /\ result' = outcome("createMemo", id, x.o, <<x.memo>>)
  /\ UNCHANGED <<clock, memos>>
  /\ UNCHANGED <<hookVars, searchVars>>

\* (variant: an id that is not stored is saved as a new record)
storageUpsert(raw, id, content, now, host) ==
  saveMemo(raw, [id |-> id, content |-> content, createdAt |-> now, updatedAt |-> now], host)

storageUpdate(raw, id, content, now, host) ==
  UNION {IF e = << >> THEN {noWrite(raw, "NOT_FOUND")}
         ELSE saveMemo(raw, [e[1] EXCEPT !.content = content, !.updatedAt = now], host) :
           e \in getMemoById(raw, id)}

MemoStorage_updateMemo ==
  /\ \E id \in StoreIds \cup {NonUuid}, c \in StoreContents, host \in HostOutcomes :
       \E o \in storageUpdate(storage, id, c, clock, host) :
          /\ storage' = o.storage
          /\ result' = outcome("updateMemo", id, o, << >>)
  /\ UNCHANGED <<clock, memos>>
  /\ UNCHANGED <<hookVars, searchVars>>

removeId(ms, id) == SelectSeq(ms, LAMBDA m : m.id # id)

storageDelete(raw, id, host) ==
  IF ~isValidId(id) THEN {noWrite(raw, "NOT_FOUND")}
  ELSE {IF r.kind # "ok" THEN noWrite(raw, r.kind)
        ELSE IF Len(removeId(r.memos, id)) = Len(r.memos) THEN noWrite(raw, "NOT_FOUND")
        ELSE saveMemos(raw, removeId(r.memos, id), host) : r \in getMemos(raw)}

MemoStorage_deleteMemo ==
  /\ \E id \in StoreIds \cup {NonUuid}, host \in HostOutcomes :
       \E o \in storageDelete(storage, id, host) :
          /\ storage' = o.storage
          /\ result' = outcome("deleteMemo", id, o, << >>)
  /\ UNCHANGED <<clock, memos>>
  /\ UNCHANGED <<hookVars, searchVars>>

\* time passes
ClockAdvance ==
  /\ clock < MaxClock
  /\ clock' = clock + 1
  /\ result' = NoResult
  /\ UNCHANGED <<storage, memos>>
  /\ UNCHANGED <<hookVars, searchVars>>

\* what another writer, or an earlier version, may have left under the key
SeedItems ==
  {item("memo", 1, "", 0, 0),
   item("memo", 2, Full, 0, 0),
   item("memo", NonUuid, "", 0, 0),
   item("badField", 1, "", 0, 0),
   item("memo", 2, "", 0, NaT)}

RECURSIVE seqsUpTo(_, _)
seqsUpTo(S, n) ==
  IF n = 0 THEN {<< >>}
  ELSE LET shorter == seqsUpTo(S, n - 1)
       IN  shorter \cup {Append(q, x) : q \in shorter, x \in S}

distinctIds(items) ==
  \A i, j \in 1..Len(items) : i # j => items[i].id # items[j].id \/ items[i].id = NonUuid

SeedStorage ==
  {NoItem, Malformed, NonArray} \cup
  {arrayOf(q) : q \in {q \in seqsUpTo(SeedItems, MaxSeedLen) : distinctIds(q)}}

StoreInit ==
  /\ currentMemo = NoMemo
  /\ memosStatus = "idle"
  /\ stored = [i \in Ids |-> Absent]
  /\ saveStatus = "idle"
  /\ lastSaved = "null"
  /\ debounceTimer = NoTimer
  /\ retryCount = 0
  /\ lastData = ""
  /\ isSaving = FALSE
  /\ retryTimers = EmptyBag
  /\ inFlight = EmptyBag
  /\ lastOp = "init"
  /\ lastStart = NoMemo
  /\ storage \in SeedStorage
  /\ clock = 0
  /\ memos = << >>
  /\ result = NoResult
  /\ isLoading = TRUE
  /\ searchQuery = ""
  /\ searchDebounceTimer = NoSearchTimer

StoreNext ==
  \/ MemoStorage_getMemos
  \/ MemoStorage_getMemoById
  \/ MemoStorage_createMemo
  \/ MemoStorage_updateMemo
  \/ MemoStorage_deleteMemo
  \/ ClockAdvance

SpecStore == StoreInit /\ [][StoreNext]_vars

\* ----------------------------------------------------- claims C11 .. C20
\* timers fire and promises settle: the host's event loop runs every due
\* timeout callback and every continuation of a settled promise
SpecEditFair ==
  /\ SpecEdit
  /\ WF_vars(Tick /\ Accepted')
  /\ WF_vars(DebounceFire /\ Accepted')
  /\ WF_vars(Settle /\ Accepted')

persisted(m) == IF m.id = 0 THEN Absent ELSE stored[m.id]

\* the operations of the user and of the host, other than an edit
OtherUserOps == {"create", "rerender", "save", "hostSignal"}

\* C11 (every commit succeeds): once a memo created with content "" has been
\* edited and no commit has started yet, then, unless another user event
\* follows, the store eventually holds the edited content and the status is
\* saved.
C11_EndToEnd ==
  (/\ lastOp = "observe"
   /\ enabledOf(currentMemo) /\ currentMemo.content = "a"
   /\ persisted(currentMemo) = "" /\ lastSaved = "null" /\ inFlight = EmptyBag)
  ~> (\/ persisted(currentMemo) = "a" /\ saveStatus = "saved"
      \/ lastOp \in OtherUserOps
      \/ currentMemo.content # "a")

WriteOps == {"createMemo", "updateMemo", "deleteMemo"}

\* C12: whenever create, update or remove reaches the write with a list
\* whose serialized size exceeds the quota, the call fails with
\* QUOTA_EXCEEDED and the raw item is what it was before the call.
C12_QuotaRejects ==
  [][(/\ result'.op \in WriteOps
      /\ result'.tried
      /\ dataSize(result'.data) > STORAGE_QUOTA_LIMIT)
        => (result'.kind = "QUOTA_EXCEEDED" /\ storage' = storage)]_vars

C12_Witness ==
  /\ result.op = "updateMemo" /\ result.tried /\ result.kind = "QUOTA_EXCEEDED"
  /\ dataSize(result.data) > STORAGE_QUOTA_LIMIT
  /\ \A i \in 1..Len(result.data) : itemBytes(result.data[i]) <= STORAGE_QUOTA_LIMIT

hasInvalidItem(raw) ==
  raw.kind = "array" /\ \E i \in 1..Len(raw.items) : ~isValidMemoData(raw.items[i])

\* C13: when the raw item is an array with at least one element that
\* isValidMemoData rejects, getMemos fails and returns no memo, wherever the
\* valid elements are.
C13_FailFast ==
  [][(result'.op = "getMemos" /\ hasInvalidItem(storage))
        => (result'.kind # "ok" /\ result'.value = << >>)]_vars

C13_Witness ==
  /\ result.op = "getMemos" /\ result.kind # "ok"
  /\ storage.kind = "array" /\ Len(storage.items) = 2
  /\ isValidMemoData(storage.items[1]) /\ ~isValidMemoData(storage.items[2])

\* C14 as claimed: getMemos reports PARSE_ERROR when the raw item parses to
\* something that is not an array, or to an array with an element that the
\* validation rejects.
C14_ParseErrorForInvalidData ==
  [][(result'.op = "getMemos" /\ (storage.kind = "nonArray" \/ hasInvalidItem(storage)))
        => result'.kind = "PARSE_ERROR"]_vars

\* C14 as amended: getMemos reports PARSE_ERROR exactly when the raw item is
\* not JSON text, UNKNOWN exactly when it parses to something that is not an
\* array or to an array with an element that the validation rejects, and
\* succeeds otherwise.
C14_ErrorKinds ==
  [][result'.op = "getMemos" =>
        /\ result'.kind = "PARSE_ERROR" <=> storage.kind = "malformed"
        /\ result'.kind = "UNKNOWN" <=> (storage.kind = "nonArray" \/ hasInvalidItem(storage))
        /\ result'.kind \in {"ok", "PARSE_ERROR", "UNKNOWN"}]_vars

C14_Witness ==
  /\ result.op = "getMemos" /\ result.kind = "UNKNOWN"
  /\ storage.kind = "array" /\ Len(storage.items) > 0
  /\ storage.items[1].form = "memo" /\ storage.items[1].id = NonUuid

\* C15: a stored record of valid shape whose createdAt or updatedAt cannot
\* be parsed as a date makes getMemos fail.
C15_BadTimestampFailsRead ==
  [][(/\ result'.op = "getMemos"
      /\ storage.kind = "array"
      /\ \E i \in 1..Len(storage.items) :
            /\ isValidMemoData(storage.items[i])
            /\ NaT \in {storage.items[i].createdAt, storage.items[i].updatedAt})
        => result'.kind # "ok"]_vars

\* the storage layer on a key that was never written: only createMemo,
\* updateMemo and deleteMemo write it
StoreInitEmpty == StoreInit /\ storage = NoItem

SpecStoreEmpty == StoreInitEmpty /\ [][StoreNext]_vars

updatedAtOf(raw, id) ==
  {raw.items[i].updatedAt : i \in {k \in 1..Len(raw.items) : raw.items[k].id = id}}

\* C16: on a store written only by create, update and remove, every
\* successful getMemos returns memos with updatedAt >= createdAt, ordered by
\* updatedAt descending, and no write lowers the stored updatedAt of an id.
C16_TimestampOrder ==
  [][/\ (result'.op = "getMemos" /\ result'.kind = "ok") =>
          /\ \A i \in 1..Len(result'.value) :
                result'.value[i].updatedAt >= result'.value[i].createdAt
          /\ \A i, j \in 1..Len(result'.value) :
                i < j => result'.value[i].updatedAt >= result'.value[j].updatedAt
     /\ \A id \in StoreIds : \A t \in updatedAtOf(storage, id), u \in updatedAtOf(storage', id) :
           u >= t]_vars

C16_Witness ==
  /\ result.op = "getMemos" /\ result.kind = "ok" /\ Len(result.value) = 2
  /\ result.value[1].updatedAt > result.value[2].updatedAt
  /\ result.value[1].updatedAt > result.value[1].createdAt
  /\ storage.items[1].id = result.value[2].id

\* ------------------------------------------------------------------ useMemos
\* useMemos on top of the storage layer.  Here currentMemo and the elements
\* of memos are whole memos (id, content, createdAt, updatedAt); the
\* scheduler is idle and its variables, with the projection stored, keep
\* their initial values.
schedulerIdle ==
  UNCHANGED <<stored, saveStatus, lastSaved, debounceTimer, retryCount,
              lastData, isSaving, retryTimers, inFlight, lastStart>>

\* (variant: the flag is cleared in the try block, not in finally)
loadingClearedInTry(kind) == kind # "ok"

\* finally { setIsLoading(false) }
loadingAfterLoad(kind) == FALSE

\* the mount effect: loadMemos
loadMemos ==
  /\ lastOp = "init"
  /\ lastOp' = "load"
  /\ \E r \in getMemos(storage) :
        /\ result' = outcome("getMemos", 0, noWrite(storage, r.kind), r.memos)
        /\ memos' = r.memos
        /\ memosStatus' = IF r.kind = "ok" THEN memosStatus ELSE "error"
  /\ isLoading' = loadingAfterLoad(result'.kind)
  /\ UNCHANGED <<storage, clock, currentMemo, searchQuery, searchDebounceTimer>>
  /\ schedulerIdle

createMemo ==
  /\ lastOp # "init"
  /\ lastOp' = "create"
  /\ \E id \in freshIds(storage), c \in StoreContents, host \in HostOutcomes :
       \E x \in storageCreate(storage, id, c, clock, host) :
          /\ storage' = x.o.storage
          /\ result' = outcome("createMemo", id, x.o, <<x.memo>>)
          /\ IF x.o.kind = "ok"
             THEN /\ memos' = <<x.memo>> \o memos
                  /\ currentMemo' = x.memo
                  /\ memosStatus' = "saved"
             ELSE /\ memosStatus' = "error"
                  /\ UNCHANGED <<memos, currentMemo>>
  /\ UNCHANGED clock
  /\ schedulerIdle
  /\ UNCHANGED searchVars

\* (variant: the list is left as it is)
patchNothing(ms, id, content, now) == ms

\* prevMemos.map(memo => memo.id === id ? {...memo, content, updatedAt: new Date()} : memo)
patchInPlace(ms, id, content, now) ==
  [i \in 1..Len(ms) |->
     IF ms[i].id = id THEN [ms[i] EXCEPT !.content = content, !.updatedAt = now]
     ELSE ms[i]]

updateMemo ==
  /\ lastOp # "init"
  /\ lastOp' = "update"
  /\ \E id \in StoreIds, c \in StoreContents, host \in HostOutcomes :
       \E o \in storageUpdate(storage, id, c, clock, host) :
          /\ storage' = o.storage
          /\ result' = outcome("updateMemo", id, o, << >>)
          /\ IF o.kind = "ok"
             THEN /\ memos' = patchInPlace(memos, id, c, clock)
                  /\ currentMemo' = IF currentMemo.id = id
                                    THEN [currentMemo EXCEPT !.content = c,
                                                             !.updatedAt = clock]
                                    ELSE currentMemo
                  /\ memosStatus' = "saved"
             ELSE /\ memosStatus' = "error"
                  /\ UNCHANGED <<memos, currentMemo>>
  /\ UNCHANGED clock
  /\ schedulerIdle
  /\ UNCHANGED searchVars

\* (variant: the selection is left as it is)
selectionKept(cur, id) == cur

\* if (currentMemo?.id === id) setCurrentMemo(null)
selectionAfterDelete(cur, id) == IF cur.id = id THEN NoMemo ELSE cur

deleteMemo ==
  /\ lastOp # "init"
  /\ lastOp' = "delete"
  /\ \E id \in StoreIds, host \in HostOutcomes :
       \E o \in storageDelete(storage, id, host) :
          /\ storage' = o.storage
          /\ result' = outcome("deleteMemo", id, o, << >>)
          /\ IF o.kind = "ok"
             THEN /\ memos' = removeId(memos, id)
                  /\ currentMemo' = selectionAfterDelete(currentMemo, id)
                  /\ memosStatus' = "saved"
             ELSE /\ memosStatus' = "error"
                  /\ UNCHANGED <<memos, currentMemo>>
  /\ UNCHANGED clock
  /\ schedulerIdle
  /\ UNCHANGED searchVars

\* handleMemoSelect -> setCurrentMemo(memo) with a memo of the list
setCurrentMemo ==
  /\ lastOp # "init"
  /\ lastOp' = "select"
  /\ \E i \in 1..Len(memos) : currentMemo' = memos[i]
  /\ result' = NoResult
  /\ UNCHANGED <<storage, clock, memos, memosStatus>>
  /\ schedulerIdle
  /\ UNCHANGED searchVars

ServiceNext ==
  \/ loadMemos
  \/ createMemo
  \/ updateMemo
  \/ deleteMemo
  \/ setCurrentMemo
  \/ ClockAdvance

SpecService == StoreInit /\ [][ServiceNext]_vars

sortedByUpdatedAt(ms) ==
  \A i, j \in 1..Len(ms) : i < j => ms[i].updatedAt >= ms[j].updatedAt

allDates(ms) ==
  \A i \in 1..Len(ms) : ms[i].updatedAt # NaT /\ ms[i].createdAt # NaT

\* C17: after the startup load and any createMemo, updateMemo and
\* deleteMemo, the list memos (all of whose timestamps are dates) is ordered
\* by updatedAt descending.
C17_CacheSorted ==
  (lastOp # "init" /\ allDates(memos)) => sortedByUpdatedAt(memos)

\* no record of the raw item has the id
absentFrom(raw, id) == \A i \in 1..Len(raw.items) : raw.items[i].id # id

\* C18 as claimed: updateMemo and deleteMemo with an id that no stored
\* record has fail with NOT_FOUND and leave the raw item unchanged.
C18_AbsentIdNotFound ==
  [][(result'.op \in {"updateMemo", "deleteMemo"} /\ absentFrom(storage, result'.id))
        => (result'.kind = "NOT_FOUND" /\ storage' = storage)]_vars

\* C18 as amended: with an id that no stored record has, both calls leave
\* the raw item unchanged; updateMemo fails with NOT_FOUND; deleteMemo fails
\* with NOT_FOUND when the id is not of UUID v4 shape or the raw item can be
\* read, and with the error of the read (PARSE_ERROR for text that is not
\* JSON, UNKNOWN for a non-array or an invalid record) otherwise.
C18_AbsentIdFails ==
  [][(result'.op \in {"updateMemo", "deleteMemo"} /\ absentFrom(storage, result'.id))
        => /\ storage' = storage
           /\ result'.kind =
                IF result'.op = "updateMemo" \/ result'.id = NonUuid THEN "NOT_FOUND"
                ELSE IF storage.kind = "malformed" THEN "PARSE_ERROR"
                ELSE IF storage.kind = "nonArray" \/ hasInvalidItem(storage) THEN "UNKNOWN"
                ELSE "NOT_FOUND"]_vars

C18_Witness ==
  /\ result.op = "deleteMemo" /\ result.kind = "UNKNOWN"
  /\ hasInvalidItem(storage) /\ absentFrom(storage, result.id)

\* C19: getMemoById never fails; it returns undefined for an id that is not
\* of UUID v4 shape or that no stored record has, and also when the raw item
\* cannot be read; when the raw item can be read and a record has the id, it
\* returns that record as a memo.
C19_GetByIdTotal ==
  [][result'.op = "getMemoById" =>
        /\ result'.kind = "ok"
        /\ Len(result'.value) <= 1
        /\ (result'.id = NonUuid \/ absentFrom(storage, result'.id)) => result'.value = << >>
        /\ (storage.kind # "array" \/ hasInvalidItem(storage)) => result'.value = << >>
        /\ (storage.kind = "array" /\ ~hasInvalidItem(storage)) =>
              \A i \in 1..Len(storage.items) :
                 storage.items[i].id = result'.id => result'.value = <<toMemo(storage.items[i])>>]_vars

C19_Witness ==
  /\ result.op = "getMemoById" /\ result.kind = "ok" /\ result.value = << >>
  /\ hasInvalidItem(storage) /\ isValidId(result.id) /\ ~absentFrom(storage, result.id)

\* a raw item that getMemos reads, with parseable timestamps and one record
\* per id
validStore(raw) ==
  \/ raw.kind = "missing"
  \/ /\ raw.kind = "array"
     /\ ~hasInvalidItem(raw)
     /\ \A i \in 1..Len(raw.items) :
           raw.items[i].createdAt # NaT /\ raw.items[i].updatedAt # NaT
     /\ \A i, j \in 1..Len(raw.items) : i # j => raw.items[i].id # raw.items[j].id

memosOf(raw) == {toMemo(raw.items[i]) : i \in 1..Len(raw.items)}

\* C20: a createMemo that succeeds on a valid store returns a memo with the
\* given content, createdAt = updatedAt and an id that no stored record had;
\* afterwards the store is valid, and reading it gives that memo together
\* with every memo stored before, unchanged.
C20_CreateAddsOne ==
  [][(result'.op = "createMemo" /\ result'.kind = "ok" /\ validStore(storage)) =>
        /\ Len(result'.value) = 1
        /\ result'.value[1].id = result'.id
        /\ absentFrom(storage, result'.id)
        /\ result'.value[1].createdAt = result'.value[1].updatedAt
        /\ validStore(storage')
        /\ memosOf(storage') = memosOf(storage) \cup {result'.value[1]}
        /\ \A r \in getMemos(storage') :
              r.kind = "ok" /\ {r.memos[i] : i \in 1..Len(r.memos)} = memosOf(storage')]_vars

C20_Witness ==
  /\ result.op = "createMemo" /\ result.kind = "ok"
  /\ Len(storage.items) = 2 /\ validStore(storage)
  /\ \E i \in 1..2 : storage.items[i].id # result.id /\ storage.items[i].updatedAt < clock

\* ----------------------------------------------------- claims C21 .. C30
\* the content that updateMemo(r.id, {content}) asked saveMemos to write
updateArg(r) == r.data[indexOf(r.data, r.id)].content

\* record b is record a, but for the updatedAt of the record with the id
keptButUpdatedAt(a, b, id) ==
  /\ a.id = b.id /\ a.form = b.form /\ a.content = b.content
  /\ a.createdAt = b.createdAt
  /\ a.id # id => a.updatedAt = b.updatedAt

\* two raw items hold the same records (whatever their order in the array)
\* but for the updatedAt of the record with the id
sameButUpdatedAt(raw1, raw2, id) ==
  /\ raw1.kind = raw2.kind
  /\ Len(raw1.items) = Len(raw2.items)
  /\ \A i \in 1..Len(raw1.items) : \E j \in 1..Len(raw2.items) :
        keptButUpdatedAt(raw1.items[i], raw2.items[j], id)
  /\ \A j \in 1..Len(raw2.items) : \E i \in 1..Len(raw1.items) :
        keptButUpdatedAt(raw1.items[i], raw2.items[j], id)

\* C21: right after an updateMemo(id, {content: x}) that succeeded, a second
\* updateMemo(id, {content: x}), now or at any later time and whether the
\* host accepts the write or not, leaves every record of the raw item as it
\* is but for the updatedAt of id, which does not decrease.
C21_UpdateIdempotent ==
  (result.op = "updateMemo" /\ result.kind = "ok") =>
     \A now \in clock..MaxClock, host \in HostOutcomes :
        \A o \in storageUpdate(storage, result.id, updateArg(result), now, host) :
           /\ sameButUpdatedAt(storage, o.storage, result.id)
           /\ \A t \in updatedAtOf(storage, result.id), u \in updatedAtOf(o.storage, result.id) :
                 u >= t

C21_Witness ==
  /\ result.op = "updateMemo" /\ result.kind = "ok"
  /\ clock < MaxClock /\ Len(storage.items) = 2
  /\ storage.items[2].id = result.id
  /\ \E o \in storageUpdate(storage, result.id, updateArg(result), clock + 1, "stored") :
        o.kind = "ok" /\ o.storage # storage

\* saveMemo(memo) called directly, with a memo as the program builds them:
\* an id of UUID v4 shape, createdAt not after updatedAt, updatedAt = now
MemoStorage_saveMemo ==
  /\ \E id \in StoreIds, c \in StoreContents, ca \in 0..clock, host \in HostOutcomes :
       LET memo == [id |-> id, content |-> c, createdAt |-> ca, updatedAt |-> clock]
       IN  \E o \in saveMemo(storage, memo, host) :
              /\ storage' = o.storage
              /\ result' = outcome("saveMemo", id, o, <<memo>>)
  /\ UNCHANGED <<clock, memos>>
  /\ UNCHANGED <<hookVars, searchVars>>

StoreNextSave ==
  \/ MemoStorage_saveMemo
  \/ MemoStorage_getMemos
  \/ MemoStorage_getMemoById
  \/ MemoStorage_createMemo
  \/ MemoStorage_updateMemo
  \/ MemoStorage_deleteMemo
  \/ ClockAdvance

SpecStoreSave == StoreInit /\ [][StoreNextSave]_vars

\* C22: after a saveMemo(memo) that succeeded, getMemoById(memo.id) returns
\* a memo with the id, content, createdAt and updatedAt of the saved one.
C22_RoundTrip ==
  [][(result'.op = "saveMemo" /\ result'.kind = "ok")
        => getMemoById(storage', result'.id) = {result'.value}]_vars

\* -------------------------------------------------------- useMemos: search
NoteContents == {"", NoteA, NoteB}
Queries == {"", " ", "A", "b"}

\* createMemo(content) with the content of a note
createNote ==
  /\ lastOp # "init"
  /\ lastOp' = "create"
  /\ \E id \in freshIds(storage), c \in NoteContents, host \in HostOutcomes :
       \E x \in storageCreate(storage, id, c, clock, host) :
          /\ storage' = x.o.storage
          /\ result' = outcome("createMemo", id, x.o, <<x.memo>>)
          /\ IF x.o.kind = "ok"
             THEN /\ memos' = <<x.memo>> \o memos
                  /\ currentMemo' = x.memo
                  /\ memosStatus' = "saved"
             ELSE /\ memosStatus' = "error"
                  /\ UNCHANGED <<memos, currentMemo>>
  /\ UNCHANGED clock
  /\ schedulerIdle
  /\ UNCHANGED searchVars

\* setSearchQuery(query): the timeout of the timer state is cleared and a new
\* one is set, which becomes the timer state
setSearchQuery ==
  /\ lastOp # "init"
  /\ lastOp' = "search"
  /\ \E q \in Queries : searchDebounceTimer' = [st |-> "pending", query |-> q]
  /\ result' = NoResult
  /\ UNCHANGED <<isLoading, searchQuery>>
  /\ UNCHANGED <<storage, clock, memos, memosStatus, currentMemo>>
  /\ schedulerIdle

\* (variant: clearSearch leaves the timeout pending)
timerKeptOnClear(tmr) == tmr

\* if (searchDebounceTimer) { clearTimeout(..); setSearchDebounceTimer(null) }
timerAfterClear(tmr) == NoSearchTimer

\* clearSearch(): the timeout of the timer state, if any, is cleared and the
\* timer state set to null; the applied query becomes ''
clearSearch ==
  /\ lastOp # "init"
  /\ lastOp' = "clearSearch"
  /\ searchDebounceTimer' = timerAfterClear(searchDebounceTimer)
  /\ searchQuery' = ""
  /\ result' = NoResult
  /\ UNCHANGED isLoading
  /\ UNCHANGED <<storage, clock, memos, memosStatus, currentMemo>>
  /\ schedulerIdle

\* the callback of the search timeout: setSearchQueryState(query); the timer
\* state keeps naming the timeout that has fired
searchTimeout ==
  /\ searchDebounceTimer.st = "pending"
  /\ lastOp' = "searchFire"
  /\ searchQuery' = searchDebounceTimer.query
  /\ searchDebounceTimer' = [searchDebounceTimer EXCEPT !.st = "fired"]
  /\ result' = NoResult
  /\ UNCHANGED isLoading
  /\ UNCHANGED <<storage, clock, memos, memosStatus, currentMemo>>
  /\ schedulerIdle

SearchNext ==
  \/ loadMemos
  \/ createNote
  \/ deleteMemo
  \/ setCurrentMemo
  \/ setSearchQuery
  \/ clearSearch
  \/ searchTimeout

\* useMemos on a key that was never written, with notes and search; the
\* timestamps play no part in it and the clock stands still
SpecSearch == StoreInitEmpty /\ [][SearchNext]_vars

\* what useMemos returns as filteredMemos
filteredMemos == filterMemos(memos, searchQuery)

\* the query is empty or consists of white space
blank(q) == \A i \in 1..Len(chars(q)) : chars(q)[i] = " "

\* the notes that contain a query, letter case ignored: "note a" contains
\* "a" and not "b", "note b" contains "b" and not "a", '' contains neither
Matching == {<<NoteA, "A">>, <<NoteB, "b">>}

\* C23: filteredMemos is the whole list memos when the applied query is
\* blank, and otherwise the memos whose content contains the query, letter
\* case ignored, in the order of memos; for the list [Note B, Note A] it is
\* [Note B, Note A] under '' and [Note A] under 'A'.
C23_FilteredView ==
  /\ blank(searchQuery) => filteredMemos = memos
  /\ ~blank(searchQuery) =>
        filteredMemos = SelectSeq(memos, LAMBDA m : <<m.content, searchQuery>> \in Matching)
  /\ (Len(memos) = 2 /\ memos[1].content = NoteB /\ memos[2].content = NoteA) =>
        /\ filterMemos(memos, "") = memos
        /\ filterMemos(memos, "A") = <<memos[2]>>

C23_Witness ==
  /\ lastOp = "searchFire" /\ searchQuery = "A"
  /\ Len(memos) = 2 /\ memos[1].content = NoteB /\ memos[2].content = NoteA
  /\ filteredMemos = <<memos[2]>>

idsOf(ms) == {ms[i].id : i \in 1..Len(ms)}

\* C24: a deleteMemo(id) that succeeds leaves memos without id and otherwise
\* as it was, so that no query shows id in filteredMemos, and leaves the
\* selection null if it had the id and as it was otherwise; a deleteMemo
\* that fails (its error is thrown to the caller) leaves memos and the
\* selection as they were.  An id enters memos only by createMemo.
C24_DeleteRemoves ==
  [][/\ result'.op = "deleteMemo" =>
          IF result'.kind = "ok"
          THEN /\ result'.id \notin idsOf(memos')
               /\ \A i \in 1..Len(memos) : memos[i].id # result'.id =>
                     \E j \in 1..Len(memos') : memos'[j] = memos[i]
               /\ Len(memos') <= Len(memos)
               /\ \A q \in Queries : result'.id \notin idsOf(filterMemos(memos', q))
               /\ currentMemo' = IF currentMemo.id = result'.id THEN NoMemo ELSE currentMemo
          ELSE /\ result'.kind \in {"NOT_FOUND", "QUOTA_EXCEEDED", "PARSE_ERROR", "UNKNOWN"}
               /\ memos' = memos
               /\ currentMemo' = currentMemo
     /\ \A id \in StoreIds :
           (id \notin idsOf(memos) /\ id \in idsOf(memos')) => result'.op = "createMemo"]_vars

C24_Witness ==
  /\ result.op = "deleteMemo" /\ result.kind = "ok"
  /\ currentMemo = NoMemo
  /\ Len(memos) = 1 /\ memos[1].id # result.id /\ memos[1].content = NoteB
  /\ searchQuery = "A" /\ filteredMemos = << >>

\* ------------------------------------------------- useMemos and the editor
\* the page from its startup to the edits of the selected memo: the
\* operations of useMemos while the scheduler is idle, and then
\* handleContentChange, after which only further edits and the passing of
\* time are followed here (timers and commits are followed in Spec)
FirstEditNext ==
  \/ saveStatus = "idle" /\ loadMemos
  \/ saveStatus = "idle" /\ createMemo
  \/ saveStatus = "idle" /\ updateMemo
  \/ saveStatus = "idle" /\ deleteMemo
  \/ saveStatus = "idle" /\ setCurrentMemo
  \/ ClockAdvance
  \/ isLoading = FALSE /\ handleContentChange

SpecFirstEdit == StoreInitEmpty /\ [][FirstEditNext]_vars

\* C25: handleContentChange(content) sets the content of the selected memo
\* in memory, sets its updatedAt in memory to the time of the edit, and
\* leaves the raw item and the list memos as they are.
C25_EditInMemoryOnly ==
  [][(lastOp' = "observe" /\ clock' = clock) =>
        /\ currentMemo'.id = currentMemo.id
        /\ currentMemo'.content # currentMemo.content
        /\ currentMemo'.createdAt = currentMemo.createdAt
        /\ currentMemo'.updatedAt = clock
        /\ storage' = storage
        /\ memos' = memos]_vars

\* ------------------------------------------------ Home: search and the editor
\* the search box of the sidebar calls setSearchQuery and clearSearch of
\* useMemos; a change of the state of useMemos renders Home again
onSearchChange ==
  /\ \E q \in Queries : searchDebounceTimer' = [st |-> "pending", query |-> q]
  /\ install(render(view(currentMemo, saveStatus, debounceTimer)))
  /\ lastOp' = "search"
  /\ lastStart' = NoMemo
  /\ UNCHANGED <<isLoading, searchQuery>>
  /\ UNCHANGED storeVars
  /\ UNCHANGED <<memosStatus, stored, lastSaved, retryCount, isSaving,
                 retryTimers, inFlight>>

onSearchClear ==
  /\ searchDebounceTimer' = NoSearchTimer
  /\ searchQuery' = ""
  /\ install(afterUpdate(view(currentMemo, saveStatus, debounceTimer),
                         searchDebounceTimer.st # "none" \/ searchQuery # ""))
  /\ lastOp' = "clearSearch"
  /\ lastStart' = NoMemo
  /\ UNCHANGED isLoading
  /\ UNCHANGED storeVars
  /\ UNCHANGED <<memosStatus, stored, lastSaved, retryCount, isSaving,
                 retryTimers, inFlight>>

\* the search timeout fires: setSearchQueryState(query)
SearchFire ==
  /\ searchDebounceTimer.st = "pending"
  /\ searchQuery' = searchDebounceTimer.query
  /\ searchDebounceTimer' = [searchDebounceTimer EXCEPT !.st = "fired"]
  /\ install(afterUpdate(view(currentMemo, saveStatus, debounceTimer),
                         searchQuery # searchDebounceTimer.query))
  /\ lastOp' = "searchFire"
  /\ lastStart' = NoMemo
  /\ UNCHANGED isLoading
  /\ UNCHANGED storeVars
  /\ UNCHANGED <<memosStatus, stored, lastSaved, retryCount, isSaving,
                 retryTimers, inFlight>>

\* the page with its search box, when every write is accepted and reset()
\* is not called
NextSearchEdit ==
  \/ handleNewNote /\ Accepted'
  \/ handleContentChange /\ Accepted'
  \/ homeRerender /\ Accepted'
  \/ save /\ Accepted'
  \/ HostSignal /\ Accepted'
  \/ DebounceFire /\ Accepted'
  \/ Settle /\ Accepted'
  \/ Tick /\ Accepted'
  \/ onSearchChange
  \/ onSearchClear
  \/ SearchFire

SpecSearchEdit == Init /\ [][NextSearchEdit]_vars

SearchOps == {"search", "clearSearch", "searchFire"}

\* C26: setting or clearing the search query and the firing of the search
\* timeout leave a pending save-debounce timeout as it is, and an edit
\* leaves the search timeout as it is.
C26_IndependentTimers ==
  [][/\ (lastOp' \in SearchOps /\ debounceTimer.st = "pending") =>
          debounceTimer' = debounceTimer
     /\ lastOp' = "observe" => searchDebounceTimer' = searchDebounceTimer]_vars

\* C27: a beforeunload or a visibilitychange to hidden that finds the status
\* typing leaves no save-debounce timeout pending and starts one attempt,
\* carrying the value observed last; no other attempt is in flight for it to
\* wait behind.  (When the status is not typing the handlers do nothing.)
C27_ForcedFlush ==
  [][lastOp' = "hostSignal" =>
        /\ saveStatus = "typing"
        /\ debounceTimer'.st # "pending"
        /\ lastStart' = currentMemo
        /\ lastStart'.content = dataOf(currentMemo)
        /\ BagCardinality(inFlight') = BagCardinality(inFlight) + 1
        /\ saveStatus' = "saving"]_vars

C27_Witness ==
  /\ lastOp = "hostSignal" /\ started /\ saveStatus = "saving"
  /\ debounceTimer.st # "pending" /\ lastStart.content = "a"
  /\ BagCardinality(inFlight) = 1

StartOps == {"observe", "save", "debounceFire", "retryFire", "hostSignal"}

\* C28: a failure of onSave is taken up by the catch and finally blocks of
\* performSave: the attempt leaves the ones in flight, isSaving is cleared,
\* and either a retry is scheduled with the status kept at saving (counter
\* below maxRetries) or the status becomes error (counter at maxRetries).
\* The status becomes error by no other step: not by an observe, a flush or
\* a timer callback, and not by a failure that finds the counter lower.
C28_FailuresAbsorbed ==
  [][/\ failedSettle =>
          /\ isSaving' = FALSE
          /\ BagCardinality(inFlight') = BagCardinality(inFlight) - 1
          /\ retryCount < maxRetries =>
                (saveStatus' # "error" /\ retryTimers' # retryTimers)
     /\ (saveStatus' = "error" /\ saveStatus # "error") =>
           (failedSettle /\ retryCount = maxRetries)
     /\ lastOp' \in StartOps => (saveStatus' = "error" => saveStatus = "error")]_vars

C28_Witness ==
  /\ lastOp = "settle" /\ saveStatus = "saving" /\ ~isSaving
  /\ retryCount = maxRetries /\ retryTimers # EmptyBag /\ inFlight = EmptyBag

\* ------------------------------------------- the page when every commit fails
\* every updateMemo called by onSave is rejected (quota, or a store that
\* cannot be read); reset() is not called
Rejected == \A r \in BagToSet(inFlight) : ~r.ok

\* timeouts pending and attempts in flight
pendingWork ==
  BagCardinality(retryTimers) + BagCardinality(inFlight)
    + (IF debounceTimer.st = "pending" THEN 1 ELSE 0)

\* the user acts only while the work pending stays within the model's cap
Bounded == Rejected /\ pendingWork <= MaxPending

NextFail ==
  \/ handleNewNote /\ Bounded'
  \/ handleContentChange /\ Bounded'
  \/ homeRerender /\ Bounded'
  \/ save /\ Bounded'
  \/ HostSignal /\ Bounded'
  \/ DebounceFire /\ Rejected'
  \/ RetryFire /\ Rejected'
  \/ Settle /\ Rejected'
  \/ Tick

\* the host's event loop runs every due timeout callback and every
\* continuation of a settled promise, and time passes
SpecFailFair ==
  /\ Init /\ [][NextFail]_vars
  /\ WF_vars(Tick)
  /\ WF_vars(DebounceFire /\ Rejected')
  /\ WF_vars(RetryFire /\ Rejected')
  /\ WF_vars(Settle /\ Rejected')

\* a flush, or a new memo (which changes the data the hook observes)
FlushOrCreate == {"save", "hostSignal", "create"}

\* C29 (every commit fails): once an edit of the selected memo has been
\* observed, then, unless another observe or a flush follows, the status
\* eventually is error with no debounce or retry timeout pending and no
\* attempt in flight; and from such a state only an observe or a flush
\* leads away.
C29_NoInfiniteRetry ==
  /\ (lastOp = "observe" /\ currentMemo.content = "a")
       ~> (\/ saveStatus = "error" /\ Quiescent
           \/ lastOp \in FlushOrCreate
           \/ currentMemo.content # "a")
  /\ [][(saveStatus = "error" /\ Quiescent) =>
           \/ saveStatus' = "error" /\ Quiescent'
           \/ lastOp' \in FlushOrCreate \cup {"observe"}]_vars

\* ------------------------------------------------------ useMemos: startup
\* the startup load on whatever the key holds, followed by operations of
\* useMemos; React runs the mount effect after the first render
StartupNext ==
  \/ loadMemos
  \/ createMemo
  \/ deleteMemo
  \/ setCurrentMemo

SpecStartup == StoreInit /\ [][StartupNext]_vars /\ WF_vars(loadMemos)

\* C30: the loading flag is true until the startup load has run; a load
\* that fails leaves memos empty, sets the status of useMemos to error and
\* clears the flag; the flag is eventually false, every operation of useMemos
\* can be called afterwards, and the flag is not set again.
C30_LoadFailure ==
  /\ [](lastOp = "init" => isLoading)
  /\ [][(lastOp = "init" /\ lastOp' = "load" /\ result'.kind # "ok") =>
           /\ memos' = << >>
           /\ memosStatus' = "error"
           /\ ~isLoading'
           /\ storage' = storage]_vars
  /\ [][~isLoading => ~isLoading']_vars
  /\ <>(~isLoading)

C30_Witness ==
  /\ lastOp = "create" /\ result.kind \in {"PARSE_ERROR", "UNKNOWN"}
  /\ memos = << >> /\ memosStatus = "error" /\ ~isLoading
  /\ storage.kind \in {"malformed", "nonArray"}

\* ----------------------------------------------------- claims C31 .. C40
\* C31: getMemos on a key that was never written (getItem gives null) ends
\* without an error and returns the empty list, and writes nothing.
C31_MissingKeyIsEmpty ==
  [][(result'.op = "getMemos" /\ storage.kind = "missing")
        => (result'.kind = "ok" /\ result'.value = << >> /\ storage' = storage)]_vars

C31_Witness ==
  /\ result.op = "getMemos" /\ result.kind = "ok" /\ result.value = << >>
  /\ storage = NoItem

\* ------------------------------------------------- the text functions alone
\* searchInText and exportMemos are pure: they are applied to inputs drawn
\* at the start.  Here a text, the content of a memo included, is given by
\* its characters.
MaxTextLen == 2

\* texts with upper case, lower case and white space
Texts == seqsUpTo({"a", "A", " "}, MaxTextLen)

\* contents with and without line breaks, empty, blank, with an empty or a
\* blank first line
ExportContents ==
  {<< >>, <<" ">>, <<"a">>, <<"\n", "a">>, <<" ", "\n", "a">>, <<"a", "\n", "b">>}

TextInit ==
  /\ currentMemo = NoMemo
  /\ memosStatus = "idle"
  /\ stored = [i \in Ids |-> Absent]
  /\ saveStatus = "idle"
  /\ lastSaved = "null"
  /\ debounceTimer = NoTimer
  /\ retryCount = 0
  /\ lastData = ""
  /\ isSaving = FALSE
  /\ retryTimers = EmptyBag
  /\ inFlight = EmptyBag
  /\ lastOp = "init"
  /\ lastStart = NoMemo
  /\ storage = NoItem
  /\ clock = 0
  /\ memos \in {[i \in 1..Len(q) |->
                   [id |-> i, content |-> q[i], createdAt |-> 0, updatedAt |-> 0]] :
                  q \in seqsUpTo(ExportContents, MaxStoreMemos)}
  /\ result \in {[NoResult EXCEPT !.op = "input", !.data = <<t, q>>] : t, q \in Texts}
  /\ isLoading = FALSE
  /\ searchQuery = ""
  /\ searchDebounceTimer = NoSearchTimer

\* a call searchInText(text, query) with the inputs drawn
callSearchInText ==
  /\ result.op = "input"
  /\ result' = [result EXCEPT !.op = "searchInText",
                              !.value = <<searchInText(result.data[1], result.data[2])>>]
  /\ UNCHANGED <<storage, clock, memos>>
  /\ UNCHANGED <<hookVars, searchVars>>

\* the placeholder title
Untitled == <<"<untitled>">>

\* memo.content.split('\n')[0]
RECURSIVE firstLine(_)
firstLine(t) ==
  IF t = << >> \/ Head(t) = "\n" THEN << >> ELSE <<Head(t)>> \o firstLine(Tail(t))

\* exportMemos('markdown'): the sections, which are joined in this order;
\* a section is `# ${title}\n\n${content}\n\n*...: ${date}*\n\n---\n`
exportMemos(ms) ==
  [i \in 1..Len(ms) |->
     [title |-> IF firstLine(ms[i].content) = << >> THEN Untitled
                ELSE firstLine(ms[i].content),
      content |-> ms[i].content,
      date |-> ms[i].updatedAt]]

callExportMemos ==
  /\ result.op = "input"
  /\ result' = [result EXCEPT !.op = "exportMemos", !.value = exportMemos(memos)]
  /\ UNCHANGED <<storage, clock, memos>>
  /\ UNCHANGED <<hookVars, searchVars>>

TextNext ==
  \/ callSearchInText
  \/ callExportMemos

SpecText == TextInit /\ [][TextNext]_vars

\* C32: searchInText(text, query) is true for every text when the query is
\* empty or consists of white space only; otherwise it is true exactly when
\* the lower-case form of the query occurs in the lower-case form of the
\* text as a run of adjacent characters.
C32_Matches ==
  result.op = "searchInText" =>
    LET t == toLowerCase(result.data[1])
        q == toLowerCase(result.data[2])
    IN  result.value[1] =
          IF \A i \in 1..Len(q) : q[i] = " " THEN TRUE
          ELSE \E k \in 1..Len(t) :
                 k + Len(q) - 1 <= Len(t) /\ SubSeq(t, k, k + Len(q) - 1) = q

C32_Witness ==
  /\ result.op = "searchInText"
  /\ result.data = <<<<" ", "A">>, <<"a">>>>
  /\ result.value = <<TRUE>>

\* the first line of t that has a character other than white space, << >>
\* when there is none
RECURSIVE firstNonBlankLine(_)
firstNonBlankLine(t) ==
  IF t = << >> THEN << >>
  ELSE IF trim(firstLine(t)) # << >> THEN firstLine(t)
  ELSE IF Len(firstLine(t)) = Len(t) THEN << >>
  ELSE firstNonBlankLine(SubSeq(t, Len(firstLine(t)) + 2, Len(t)))

\* C33: the markdown export has one section for each memo of the list, in
\* the order of the list, with the memo's content as its body; the heading
\* is the first non-blank line of the content, and it is the placeholder
\* exactly when the content is blank.
C33_ExportSections ==
  result.op = "exportMemos" =>
    /\ Len(result.value) = Len(memos)
    /\ \A i \in 1..Len(memos) :
         /\ result.value[i].content = memos[i].content
         /\ result.value[i].title =
              IF firstNonBlankLine(memos[i].content) = << >> THEN Untitled
              ELSE firstNonBlankLine(memos[i].content)

\* C34: a call of setSearchQuery leaves the applied query as it is and
\* leaves one timeout pending; the applied query changes only when the
\* pending timeout fires, to the value of the last call, or by clearSearch,
\* to ''; clearSearch leaves no timeout pending, and with no timeout pending
\* the applied query changes by clearSearch alone.
C34_SearchDebounce ==
  [][/\ lastOp' = "search" =>
          searchQuery' = searchQuery /\ searchDebounceTimer'.st = "pending"
     /\ searchQuery' # searchQuery =>
          \/ /\ lastOp' = "searchFire"
             /\ searchDebounceTimer.st = "pending"
             /\ searchQuery' = searchDebounceTimer.query
          \/ lastOp' = "clearSearch" /\ searchQuery' = ""
     /\ lastOp' = "searchFire" =>
          searchQuery' = searchDebounceTimer.query /\ searchDebounceTimer'.st # "pending"
     /\ lastOp' = "clearSearch" =>
          searchQuery' = "" /\ searchDebounceTimer'.st # "pending"]_vars

C34_Witness ==
  /\ lastOp = "searchFire" /\ searchQuery = "b"
  /\ searchDebounceTimer = [st |-> "fired", query |-> "b"]
  /\ Len(memos) = 2 /\ Len(filteredMemos) = 1

\* C37: while the raw item is one that getMemos fails on, every createMemo,
\* updateMemo and deleteMemo fails and leaves the raw item as it is.
C37_UnreadableStoreKept ==
  [][(/\ result'.op \in WriteOps
      /\ \A r \in getMemos(storage) : r.kind # "ok")
        => (result'.kind # "ok" /\ storage' = storage)]_vars

C37_Witness ==
  /\ result.op = "createMemo" /\ result.kind = "UNKNOWN" /\ ~result.tried
  /\ storage.kind = "array" /\ Len(storage.items) = 2
  /\ isValidMemoData(storage.items[1]) /\ storage.items[2].id = NonUuid

\* ------------------------------------------------------------ the whole page
\* Home with useMemos, useAutoSave and MemoStorage together, on a key that
\* was never written.  currentMemo, the elements of memos and the memos
\* captured by timers are whole memos; the projection stored is not kept.
\* Home's onSave awaits updateMemo, which has no await of its own: the
\* promise is settled when the call returns and the rest of performSave runs
\* before any other timer or event, so every other step waits for Settle.

\* performSave of the render whose currentMemo was m: onSave calls
\* updateMemo(m.id, m.content) of the same render, whose test
\* currentMemo?.id === id is on m itself, while setCurrentMemo(prev => ...)
\* patches the memo selected now
Home_performSave(m, tmr, rts) ==
  IF blocked(isSaving, m)
  THEN /\ debounceTimer' = tmr
       /\ retryTimers' = rts
       /\ lastStart' = NoMemo
       /\ UNCHANGED <<currentMemo, memosStatus, saveStatus, lastSaved, retryCount,
                      lastData, isSaving, inFlight, storage, memos, result>>
  ELSE \E host \in (IF BagCardinality(rts) + BagCardinality(inFlight) < MaxPending
                    THEN HostOutcomes ELSE {"stored"}) :
       \E o \in storageUpdate(storage, m.id, m.content, clock, host) :
         LET ok == o.kind = "ok"
             memoAfter == IF ok /\ currentMemo.id # 0
                          THEN [currentMemo EXCEPT !.content = m.content,
                                                   !.updatedAt = clock]
                          ELSE currentMemo
             mstat == IF ok THEN "saved" ELSE "error"
             changed == saveStatus # "saving" \/ ok \/ memosStatus # mstat
         IN  /\ storage' = o.storage
             /\ result' = outcome("updateMemo", m.id, o, << >>)
             /\ memos' = IF ok THEN patchInPlace(memos, m.id, m.content, clock) ELSE memos
             /\ install(afterUpdate(view(memoAfter, "saving", tmr), changed))
             /\ isSaving' = TRUE
             /\ inFlight' = inFlight (+) SetToBag({[memo |-> m, ok |-> ok]})
             /\ memosStatus' = mstat
             /\ retryTimers' = rts
             /\ lastStart' = m
             /\ UNCHANGED <<lastSaved, retryCount>>

Home_DebounceFire ==
  /\ inFlight = EmptyBag
  /\ debounceTimer.st = "pending"
  /\ debounceTimer.due = 0
  /\ lastOp' = "debounceFire"
  /\ Home_performSave(debounceTimer.memo, NoTimer, retryTimers)
  /\ UNCHANGED <<stored, clock, searchVars>>

Home_RetryFire ==
  /\ inFlight = EmptyBag
  /\ \E t \in BagToSet(retryTimers) :
       /\ t.due = 0
       /\ Home_performSave(t.memo, debounceTimer, retryTimers (-) SetToBag({t}))
  /\ lastOp' = "retryFire"
  /\ UNCHANGED <<stored, clock, searchVars>>

\* beforeunload, and visibilitychange to hidden
Home_HostSignal ==
  /\ inFlight = EmptyBag
  /\ saveStatus = "typing"
  /\ enabledOf(currentMemo)
  /\ lastOp' = "hostSignal"
  /\ Home_performSave(currentMemo, debounceTimer, retryTimers)
  /\ UNCHANGED <<stored, clock, searchVars>>

\* handleNewNote -> createMemo(''); generateId() returns a uuid that nothing
\* holds: no stored record, no memo of the list and no closure of a timer
Home_handleNewNote ==
  /\ inFlight = EmptyBag
  /\ lastOp' = "create"
  /\ LET held == {storage.items[i].id : i \in 1..Len(storage.items)}
                   \cup {memos[i].id : i \in 1..Len(memos)}
                   \cup {currentMemo.id, debounceTimer.memo.id}
                   \cup {t.memo.id : t \in BagToSet(retryTimers)}
     IN  \E id \in StoreIds \ held, host \in HostOutcomes :
         \E x \in storageCreate(storage, id, "", clock, host) :
           /\ storage' = x.o.storage
           /\ result' = outcome("createMemo", id, x.o, <<x.memo>>)
           /\ IF x.o.kind = "ok"
              THEN /\ memos' = <<x.memo>> \o memos
                   /\ memosStatus' = "saved"
                   /\ install(render(view(x.memo, saveStatus, debounceTimer)))
              ELSE /\ memos' = memos
                   /\ memosStatus' = "error"
                   /\ install(afterUpdate(view(currentMemo, saveStatus, debounceTimer),
                                          memosStatus # "error"))
  /\ lastStart' = NoMemo
  /\ UNCHANGED <<lastSaved, retryCount, isSaving, retryTimers, inFlight>>
  /\ UNCHANGED <<stored, clock, searchVars>>

\* handleMemoSelect(memo) with another memo of the list
Home_handleMemoSelect ==
  /\ inFlight = EmptyBag
  /\ lastOp' = "select"
  /\ \E i \in 1..Len(memos) :
       /\ memos[i].id # currentMemo.id
       /\ install(render(view(memos[i], saveStatus, debounceTimer)))
  /\ result' = NoResult
  /\ lastStart' = NoMemo
  /\ UNCHANGED <<memosStatus, lastSaved, retryCount, isSaving, retryTimers, inFlight>>
  /\ UNCHANGED <<storage, memos, stored, clock, searchVars>>

\* handleConfirmDelete -> deleteMemo(currentMemo.id)
Home_handleConfirmDelete ==
  /\ inFlight = EmptyBag
  /\ enabledOf(currentMemo)
  /\ lastOp' = "delete"
  /\ \E host \in HostOutcomes : \E o \in storageDelete(storage, currentMemo.id, host) :
       /\ storage' = o.storage
       /\ result' = outcome("deleteMemo", currentMemo.id, o, << >>)
       /\ IF o.kind = "ok"
          THEN /\ memos' = removeId(memos, currentMemo.id)
               /\ memosStatus' = "saved"
               /\ install(render(view(selectionAfterDelete(currentMemo, currentMemo.id),
                                      saveStatus, debounceTimer)))
          ELSE /\ memos' = memos
               /\ memosStatus' = "error"
               /\ install(afterUpdate(view(currentMemo, saveStatus, debounceTimer),
                                      memosStatus # "error"))
  /\ lastStart' = NoMemo
  /\ UNCHANGED <<lastSaved, retryCount, isSaving, retryTimers, inFlight>>
  /\ UNCHANGED <<stored, clock, searchVars>>

PageNext ==
  \/ Home_handleNewNote
  \/ Home_handleMemoSelect
  \/ Home_handleConfirmDelete
  \/ inFlight = EmptyBag /\ handleContentChange
  \/ inFlight = EmptyBag /\ homeRerender
  \/ Home_HostSignal
  \/ Home_DebounceFire
  \/ Home_RetryFire
  \/ Settle
  \/ inFlight = EmptyBag /\ Tick

\* the timestamps play no part in it and the clock stands still
SpecPage == Init /\ [][PageNext]_vars

\* the records of a list other than the one of id
othersOf(ms, id) == SelectSeq(ms, LAMBDA m : m.id # id)

\* C35: a step that starts a commit attempt for a memo leaves every other
\* memo as it is: the stored records and the memos of the list with another
\* id, and the selected memo when it is another one.
C35_CommitTouchesOnlyItsMemo ==
  [][started' =>
       /\ othersOf(storage'.items, lastStart'.id) = othersOf(storage.items, lastStart'.id)
       /\ othersOf(memos', lastStart'.id) = othersOf(memos, lastStart'.id)
       /\ currentMemo.id # lastStart'.id =>
            currentMemo'.id = currentMemo.id /\ currentMemo'.content = currentMemo.content]_vars

\* the page when the user types into the memo of id 1 alone, every other
\* memo being created, selected and deleted but never edited, and when the
\* host accepts every write of a commit; time passes
SelectNext ==
  \/ Home_handleNewNote
  \/ Home_handleMemoSelect
  \/ Home_handleConfirmDelete
  \/ inFlight = EmptyBag /\ currentMemo.id = 1 /\ handleContentChange
  \/ inFlight = EmptyBag /\ homeRerender
  \/ Home_HostSignal /\ Accepted'
  \/ Home_DebounceFire /\ Accepted'
  \/ Settle
  \/ inFlight = EmptyBag /\ Tick
  \/ inFlight = EmptyBag /\ ClockAdvance

SpecSelect == Init /\ [][SelectNext]_vars

\* C36: a memo that is selected but never edited is never written: no
\* commit attempt for it reaches the write, and its stored record, updatedAt
\* included, stays as it is for as long as it is stored.
C36_SelectionWritesNothing ==
  [][/\ (started' /\ lastStart'.id # 1) => ~result'.tried
     /\ \A i \in 1..Len(storage.items), j \in 1..Len(storage'.items) :
          (storage.items[i].id # 1 /\ storage'.items[j].id = storage.items[i].id)
             => storage'.items[j] = storage.items[i]]_vars

\* C38: a commit attempt for a memo whose id is not stored fails with
\* NOT_FOUND and leaves the stored array and the list as they are; a
\* successful delete removes the id from both; and an id enters the stored
\* array or the list by a create alone, so a removed id does not come back.
C38_RemovedStaysRemoved ==
  [][/\ (started' /\ lastStart'.id \notin idsOf(storage.items)) =>
          result'.kind = "NOT_FOUND" /\ storage' = storage /\ memos' = memos
     /\ (lastOp' = "delete" /\ result'.kind = "ok") =>
          result'.id \notin (idsOf(storage'.items) \cup idsOf(memos'))
     /\ (~(idsOf(storage'.items) \subseteq idsOf(storage.items))
         \/ ~(idsOf(memos') \subseteq idsOf(memos))) => lastOp' = "create"]_vars

C38_Witness ==
  /\ lastOp = "retryFire" /\ started /\ result.kind = "NOT_FOUND"
  /\ lastStart.id \notin (idsOf(storage.items) \cup idsOf(memos))
  /\ currentMemo.id \in idsOf(storage.items) /\ currentMemo.id # lastStart.id

\* the list ms and the stored array raw hold the same ids, and for each id
\* the same content
coherent(ms, raw) ==
  /\ idsOf(ms) = idsOf(raw.items)
  /\ \A i \in 1..Len(ms), j \in 1..Len(raw.items) :
        ms[i].id = raw.items[j].id => ms[i].content = raw.items[j].content

\* C39: a startup load that succeeds leaves the list memos and the stored
\* array with the same ids and, id by id, the same content, and every later
\* createMemo, updateMemo and deleteMemo, succeeding or failing, and every
\* selection keeps them so; while every stored timestamp parses, getMemos
\* returns these ids and contents.
C39_CacheCoherent ==
  /\ [][(lastOp = "init" /\ lastOp' = "load" /\ result'.kind = "ok")
          => coherent(memos', storage')]_vars
  /\ [][(lastOp # "init" /\ coherent(memos, storage)) =>
          /\ coherent(memos', storage')
          /\ validStore(storage') =>
               \A r \in getMemos(storage') :
                  r.kind = "ok" /\ coherent(memos', arrayOf(r.memos))]_vars

C39_Witness ==
  /\ lastOp = "update" /\ result.kind = "QUOTA_EXCEEDED"
  /\ Len(memos) = 2 /\ memos[1].content = Half
  /\ coherent(memos, storage)

\* C40: whenever the status of the scheduler is saved and a memo is
\* selected, the stored record of that memo holds the content the memo has
\* in memory.
C40_SavedMeansPersisted ==
  (saveStatus = "saved" /\ enabledOf(currentMemo)) =>
     \E i \in 1..Len(storage.items) :
        /\ storage.items[i].id = currentMemo.id
        /\ storage.items[i].content = currentMemo.content

====
